---- MODULE Spec2Model ----
(***************************************************************************)
(* The add-plant and edit-plant screens of my-plants (src/add.tsx,         *)
(* src/edit.tsx) as one state machine.  One screen instance is mounted per *)
(* behaviour (chosen by Init).  An async handler is split at its await:    *)
(* the part up to the await is one action (it runs inside the press event),*)
(* the continuation after the remote call settles is another.              *)
(*                                                                         *)
(* JavaScript values that can be of several types are tagged records:      *)
(*   [t |-> "number", v |-> n]   [t |-> "string", v |-> <<chars>>]         *)
(*   [t |-> "NaN"]                                                         *)
(* Text is a sequence of one-character strings.                            *)
(***************************************************************************)
EXTENDS Integers, Sequences, FiniteSets, TLC

VARIABLES
    screen,             \* which screen this instance is: "addPlant" | "editPlant"
    route,              \* the navigator's current route: screen, or "home"
    selectedPlant,      \* edit: the cached record (NoPlant when the cache has none)
    loading,            \* useState(false), both screens
    image,              \* useState<ImageInfo>(), both screens ("undefined" | a picked image)
    showModal,          \* edit: useState(false)
    isRemindersChecked, \* add: useState(false)
    isReminderChecked,  \* edit: flag held by useGetPlantDetailsFromCache
    values,             \* Formik's values of the mounted form
    pending,            \* remote calls in flight, oldest first
    settled,            \* how each finished remote call ended, oldest first
    toasts              \* every showToast so far, oldest first

vars == <<screen, route, selectedPlant, loading, image, showModal,
          isRemindersChecked, isReminderChecked, values, pending, settled, toasts>>

----------------------------------------------------------------------------
(* Bounds and input sets *)

MaxCalls == 2          \* remote calls started by one screen instance
MaxFreqLen == 2        \* characters of a typed frequency
MaxStoredFreq == 2     \* largest wateringReminderFrequency of a cached record

FreqChars == {"2", " ", "a"}
Digits == {"0", "1", "2", "3", "4", "5", "6", "7", "8", "9"}
WhiteSpace == {" "}

TextUpTo(chars, n) == UNION {[1..k -> chars] : k \in 0..n}

\* what the user may type: plain text, padded text, inner and only blanks
NameTexts == {<<"F">>, <<" ", "F", " ">>, <<"F", " ", "F">>, <<" ">>}
DescriptionTexts == {<<"G">>, <<" ", "G", " ">>}
FreqTexts == TextUpTo(FreqChars, MaxFreqLen)
PickedImages == {"picked.jpg"}

----------------------------------------------------------------------------
(* JavaScript values and conversions *)

Num(n) == [t |-> "number", v |-> n]
Str(s) == [t |-> "string", v |-> s]
NaN == [t |-> "NaN"]

DigitValue(c) ==
    CASE c = "0" -> 0 [] c = "1" -> 1 [] c = "2" -> 2 [] c = "3" -> 3
      [] c = "4" -> 4 [] c = "5" -> 5 [] c = "6" -> 6 [] c = "7" -> 7
      [] c = "8" -> 8 [] c = "9" -> 9

RECURSIVE TrimStart(_)
TrimStart(s) ==
    IF s # <<>> /\ Head(s) \in WhiteSpace THEN TrimStart(Tail(s)) ELSE s

RECURSIVE TrimEnd(_)
TrimEnd(s) ==
    IF s # <<>> /\ s[Len(s)] \in WhiteSpace
    THEN TrimEnd(SubSeq(s, 1, Len(s) - 1)) ELSE s

\* faulty variant: only the leading white space goes
TrimStartOnly(s) == TrimStart(s)

\* String.prototype.trim
Trim(s) == TrimEnd(TrimStart(s))

\* the longest prefix of s made of decimal digits
RECURSIVE DigitPrefix(_)
DigitPrefix(s) ==
    IF s # <<>> /\ Head(s) \in Digits
    THEN <<Head(s)>> \o DigitPrefix(Tail(s)) ELSE <<>>

\* the number a sequence of decimal digits denotes (0 for the empty one)
RECURSIVE DecimalValue(_)
DecimalValue(ds) ==
    IF ds = <<>> THEN 0
    ELSE 10 * DecimalValue(SubSeq(ds, 1, Len(ds) - 1)) + DigitValue(ds[Len(ds)])

\* parseInt(text): skips leading white space, reads decimal digits up to
\* the first character that is none, NaN when there is no digit to read
ParseInt(s) ==
    LET ds == DigitPrefix(TrimStart(s))
    IN  IF ds = <<>> THEN NaN ELSE Num(DecimalValue(ds))

\* ToNumber(text), the conversion == applies to a string operand: white
\* space around is dropped, the empty text is 0, anything but digits is NaN
ToNumber(s) ==
    LET body == Trim(s)
    IN  IF body = <<>> THEN Num(0)
        ELSE IF \A i \in 1..Len(body) : body[i] \in Digits
             THEN Num(DecimalValue(body)) ELSE NaN

\* faulty variant: a === b, no conversion of a string operand
LooseEqualsStrict(a, b) == a = b

\* a == b for a number a and a form value b (a number or a string)
LooseEquals(a, b) ==
    LET nb == IF b.t = "string" THEN ToNumber(b.v) ELSE b
    IN  a.t = "number" /\ nb.t = "number" /\ a.v = nb.v

\* !!x for a number
Truthy(x) == x.t = "number" /\ x.v # 0

----------------------------------------------------------------------------
(* Records, form values, payloads *)

\* route.params.plantId
plantId == "plant-1"

\* the cache holds no record of that id
NoPlant == [id |-> "undefined"]

Plants ==
    {[id |-> plantId, name |-> <<"F">>, description |-> <<"G">>,
      imgSrc |-> "stored.jpg", wateringReminderFrequency |-> Num(f)] :
        f \in 0..MaxStoredFreq}

\* the form is not mounted (edit: no cached record, or the loader is shown)
NoForm == [form |-> "unmounted"]

\* add.tsx: Formik initialValues
AddInitialValues ==
    [name |-> <<>>, description |-> <<>>, wateringReminderFrequency |-> Num(1)]

\* edit.tsx: Formik initialValues
EditInitialValues(plant) ==
    [name |-> plant.name,
     description |-> plant.description,
     image |-> plant.imgSrc,
     wateringReminderFrequency |->
        IF Truthy(plant.wateringReminderFrequency)
        THEN plant.wateringReminderFrequency ELSE Num(1)]

\* utils/images base64EncodeImage: the picked image as transport text
base64EncodeImage(img) == "base64(" \o img \o ")"

\* faulty variant: the form value is passed on as it is
CoerceFrequencyNone(f) == f

\* the "workaround" of both handlers: a string is parsed, a number kept
CoerceFrequency(f) == IF f.t = "string" THEN ParseInt(f.v) ELSE f

\* faulty variant: the frequency key is always there
AddPayloadAlwaysFrequency(vals, img, checked) ==
    [name |-> Trim(vals.name),
     description |-> Trim(vals.description),
     image |-> IF img # "undefined" THEN base64EncodeImage(img) ELSE "null",
     wateringReminderFrequency |->
        IF checked THEN CoerceFrequency(vals.wateringReminderFrequency)
        ELSE Num(0)]

\* the object literal onSubmit passes to addPlant
AddPayload(vals, img, checked) ==
    LET base == [name |-> Trim(vals.name),
                 description |-> Trim(vals.description),
                 image |-> IF img # "undefined"
                           THEN base64EncodeImage(img) ELSE "null"]
    IN  IF checked
        THEN base @@ [wateringReminderFrequency |->
                        CoerceFrequency(vals.wateringReminderFrequency)]
        ELSE base

\* faulty variant: without a picked image the form's stored image URI is sent
EditPayloadStoredImage(id, vals, img, checked) ==
    LET base == [id |-> id,
                 name |-> vals.name,
                 description |-> vals.description,
                 image |-> IF img # "undefined"
                           THEN base64EncodeImage(img) ELSE vals.image]
    IN  IF checked
        THEN base @@ [wateringReminderFrequency |->
                        CoerceFrequency(vals.wateringReminderFrequency)]
        ELSE base

\* the object literal handleEdit passes to editPlant
EditPayload(id, vals, img, checked) ==
    LET base == [id |-> id,
                 name |-> vals.name,
                 description |-> vals.description,
                 image |-> IF img # "undefined"
                           THEN base64EncodeImage(img) ELSE "null"]
    IN  IF checked
        THEN base @@ [wateringReminderFrequency |->
                        CoerceFrequency(vals.wateringReminderFrequency)]
        ELSE base

\* createAddPlantSchema(flag) / createEditPlantSchema(flag): name required,
\* description optional, frequency a positive integer when the flag is set
SchemaAccepts(vals, checked) ==
    /\ vals.name # <<>>
    /\ checked =>
         LET n == IF vals.wateringReminderFrequency.t = "string"
                  THEN ToNumber(vals.wateringReminderFrequency.v)
                  ELSE vals.wateringReminderFrequency
         IN  n.t = "number" /\ n.v > 0

\* edit.tsx checkIfButtonShouldBeDisabled
checkIfButtonShouldBeDisabled(vals) ==
    IF selectedPlant = NoPlant THEN TRUE
    ELSE /\ selectedPlant.name = vals.name
         /\ selectedPlant.description = vals.description
         /\ image = "undefined"
         /\ Truthy(selectedPlant.wateringReminderFrequency) = isReminderChecked
         /\ \/ ~isReminderChecked
            \/ LooseEquals(selectedPlant.wateringReminderFrequency,
                           vals.wateringReminderFrequency)

Toast(text, type) == [text1 |-> text, type |-> type]

RemoveAt(s, i) == SubSeq(s, 1, i - 1) \o SubSeq(s, i + 1, Len(s))

\* calls this instance has started so far
CallsStarted == Len(pending) + Len(settled)

\* the remote service's answer to pending[i] is delivered
Settle(i, outcome) ==
    /\ settled' = Append(settled, [op |-> pending[i].op, outcome |-> outcome])
    /\ pending' = RemoveAt(pending, i)

----------------------------------------------------------------------------
(* What is on screen *)

AddFormShown == screen = "addPlant" /\ route = "addPlant" /\ ~loading

EditFormShown ==
    screen = "editPlant" /\ route = "editPlant"
    /\ selectedPlant # NoPlant /\ ~loading

LoaderShown ==
    /\ route = screen
    /\ IF screen = "addPlant" THEN loading
       ELSE selectedPlant = NoPlant \/ loading

----------------------------------------------------------------------------
(* Initial state: one screen freshly mounted *)

\* hooks/useGetPlantDetailsFromCache: the reminder flag it starts with is
\* whether the cached record has a frequency
useGetPlantDetailsFromCache(plant) ==
    plant # NoPlant /\ Truthy(plant.wateringReminderFrequency)

Init ==
    /\ screen \in {"addPlant", "editPlant"}
    /\ route = screen
    /\ selectedPlant \in (IF screen = "editPlant" THEN Plants \cup {NoPlant}
                          ELSE {NoPlant})
    /\ loading = FALSE
    /\ image = "undefined"
    /\ showModal = FALSE
    /\ isRemindersChecked = FALSE
    /\ isReminderChecked = useGetPlantDetailsFromCache(selectedPlant)
    /\ values = IF screen = "addPlant" THEN AddInitialValues
                ELSE IF selectedPlant # NoPlant
                     THEN EditInitialValues(selectedPlant) ELSE NoForm
    /\ pending = <<>>
    /\ settled = <<>>
    /\ toasts = <<>>

----------------------------------------------------------------------------
(* Form editing (both screens) *)

FormShown == AddFormShown \/ EditFormShown

\* BasicTextInput onChangeText={handleChange("name")}
handleChangeName ==
    /\ FormShown
    /\ \E text \in NameTexts : values' = [values EXCEPT !.name = text]
    /\ UNCHANGED <<screen, route, selectedPlant, loading, image, showModal,
                   isRemindersChecked, isReminderChecked, pending, settled, toasts>>

\* BasicTextInput onChangeText={handleChange("description")}
handleChangeDescription ==
    /\ FormShown
    /\ \E text \in DescriptionTexts :
         values' = [values EXCEPT !.description = text]
    /\ UNCHANGED <<screen, route, selectedPlant, loading, image, showModal,
                   isRemindersChecked, isReminderChecked, pending, settled, toasts>>

\* WateringReminderInput setNumberValue={handleChange("wateringReminderFrequency")}:
\* rendered only while the checkbox is checked; the field delivers text
handleChangeFrequency ==
    /\ \/ AddFormShown /\ isRemindersChecked
       \/ EditFormShown /\ isReminderChecked
    /\ \E text \in FreqTexts :
         values' = [values EXCEPT !.wateringReminderFrequency = Str(text)]
    /\ UNCHANGED <<screen, route, selectedPlant, loading, image, showModal,
                   isRemindersChecked, isReminderChecked, pending, settled, toasts>>

\* BasicImageInput setImage={setImage}
setImage ==
    /\ FormShown
    /\ \E img \in PickedImages : image' = img
    /\ UNCHANGED <<screen, route, selectedPlant, loading, showModal,
                   isRemindersChecked, isReminderChecked, values, pending,
                   settled, toasts>>

\* add: BasicCheckbox setChecked={setRemindersChecked}
setRemindersChecked ==
    /\ AddFormShown
    /\ isRemindersChecked' = ~isRemindersChecked
    /\ UNCHANGED <<screen, route, selectedPlant, loading, image, showModal,
                   isReminderChecked, values, pending, settled, toasts>>

\* edit: BasicCheckbox setChecked={setReminderChecked}
setReminderChecked ==
    /\ EditFormShown
    /\ isReminderChecked' = ~isReminderChecked
    /\ UNCHANGED <<screen, route, selectedPlant, loading, image, showModal,
                   isRemindersChecked, values, pending, settled, toasts>>

\* Leaving for "home" pops the screen off the stack: the component unmounts
\* and its state (useState, the hook's flag, Formik's values) is gone;
\* calls in flight and their continuations live on.
Unmount ==
    /\ route' = "home"
    /\ loading' = FALSE
    /\ image' = "undefined"
    /\ showModal' = FALSE
    /\ isRemindersChecked' = FALSE
    /\ isReminderChecked' = FALSE
    /\ values' = NoForm

\* <Back navigation={navigation} />: leaves the screen
Back ==
    /\ route = screen
    /\ Unmount
    /\ UNCHANGED <<screen, selectedPlant, pending, settled, toasts>>

----------------------------------------------------------------------------
(* add.tsx onSubmit *)

\* faulty variant: setLoading(true) is missing
onSubmitNoLoading ==
    /\ AddFormShown
    /\ SchemaAccepts(values, isRemindersChecked)
    /\ CallsStarted < MaxCalls
    /\ pending' = Append(pending,
          [op |-> "addPlant", values |-> values, image |-> image,
           checked |-> isRemindersChecked,
           payload |-> AddPayload(values, image, isRemindersChecked)])
    /\ UNCHANGED <<screen, route, selectedPlant, loading, image, showModal,
                   isRemindersChecked, isReminderChecked, values, settled,
                   toasts>>

\* the submit button: Formik validates, then onSubmit runs up to its await
onSubmit ==
    /\ AddFormShown
    /\ SchemaAccepts(values, isRemindersChecked)
    /\ CallsStarted < MaxCalls
    /\ loading' = TRUE
    /\ pending' = Append(pending,
          [op |-> "addPlant", values |-> values, image |-> image,
           checked |-> isRemindersChecked,
           payload |-> AddPayload(values, image, isRemindersChecked)])
    /\ UNCHANGED <<screen, route, selectedPlant, image, showModal,
                   isRemindersChecked, isReminderChecked, values, settled, toasts>>

\* addPlant resolved: resetForm, navigate home, success toast, finally
onSubmitThen(i) ==
    /\ pending[i].op = "addPlant"
    /\ Settle(i, "ok")
    /\ Unmount
    /\ toasts' = Append(toasts, Toast("pages.plants.add.success", "success"))
    /\ UNCHANGED <<screen, selectedPlant>>

\* faulty variant: the INVALID_FILE return leaves without the finally
onSubmitCatchKeepsLoading(i, error) ==
    /\ pending[i].op = "addPlant"
    /\ Settle(i, error)
    /\ toasts' = Append(toasts,
          IF error = "INVALID_FILE"
          THEN Toast("errors.invalidFileType", "error")
          ELSE Toast("errors.general", "error"))
    /\ loading' = (loading /\ error = "INVALID_FILE")
    /\ UNCHANGED <<screen, route, selectedPlant, image, showModal,
                   isRemindersChecked, isReminderChecked, values>>

\* addPlant rejected with error: the catch's switch, finally
onSubmitCatch(i, error) ==
    /\ pending[i].op = "addPlant"
    /\ Settle(i, error)
    /\ toasts' = Append(toasts,
          IF error = "INVALID_FILE"
          THEN Toast("errors.invalidFileType", "error")
          ELSE Toast("errors.general", "error"))
    /\ loading' = FALSE
    /\ UNCHANGED <<screen, route, selectedPlant, image, showModal,
                   isRemindersChecked, isReminderChecked, values>>

----------------------------------------------------------------------------
(* edit.tsx handleEdit *)

\* the submit button (enabled by the dirty-check): Formik validates, then
\* handleEdit runs up to its await; loading unmounts the Formik form
handleEdit ==
    /\ EditFormShown
    /\ ~checkIfButtonShouldBeDisabled(values)
    /\ SchemaAccepts(values, isReminderChecked)
    /\ CallsStarted < MaxCalls
    /\ loading' = TRUE
    /\ pending' = Append(pending,
          [op |-> "editPlant", values |-> values, image |-> image,
           checked |-> isReminderChecked,
           payload |-> EditPayload(plantId, values, image,
                                   isReminderChecked)])
    /\ values' = NoForm
    /\ UNCHANGED <<screen, route, selectedPlant, image, showModal,
                   isRemindersChecked, isReminderChecked, settled, toasts>>

\* the form Formik shows once the loader is gone: a fresh mount
Remounted ==
    IF route = "editPlant" /\ selectedPlant # NoPlant
    THEN EditInitialValues(selectedPlant) ELSE NoForm

\* editPlant resolved: navigate home, success toast, finally
handleEditThen(i) ==
    /\ pending[i].op = "editPlant"
    /\ Settle(i, "ok")
    /\ Unmount
    /\ toasts' = Append(toasts, Toast("pages.plants.edit.success", "success"))
    /\ UNCHANGED <<screen, selectedPlant>>

\* faulty variant: the INVALID_FILE case falls through to the default case
handleEditCatchFallsThrough(i, error) ==
    /\ pending[i].op = "editPlant"
    /\ Settle(i, error)
    /\ toasts' =
          IF error = "INVALID_FILE"
          THEN toasts \o <<Toast("errors.invalidFileType", "error"),
                           Toast("errors.general", "error")>>
          ELSE Append(toasts, Toast("errors.general", "error"))
    /\ loading' = FALSE
    /\ values' = IF route = "editPlant" /\ selectedPlant # NoPlant
                 THEN EditInitialValues(selectedPlant) ELSE NoForm
    /\ UNCHANGED <<screen, route, selectedPlant, image, showModal,
                   isRemindersChecked, isReminderChecked>>

\* editPlant rejected with error: the catch's switch, finally
handleEditCatch(i, error) ==
    /\ pending[i].op = "editPlant"
    /\ Settle(i, error)
    /\ toasts' = Append(toasts,
          IF error = "INVALID_FILE"
          THEN Toast("errors.invalidFileType", "error")
          ELSE Toast("errors.general", "error"))
    /\ loading' = FALSE
    /\ values' = Remounted
    /\ UNCHANGED <<screen, route, selectedPlant, image, showModal,
                   isRemindersChecked, isReminderChecked>>

----------------------------------------------------------------------------
(* edit.tsx delete *)

\* handleDelete up to its await
handleDelete ==
    /\ pending' = Append(pending,
          [op |-> "deletePlant", payload |-> [id |-> plantId]])
    /\ UNCHANGED <<screen, route, selectedPlant, loading, image,
                   isRemindersChecked, isReminderChecked, values, settled,
                   toasts>>

\* faulty variant: the icon deletes at once, no modal
pressDeleteIconDeletes ==
    /\ screen = "editPlant" /\ route = "editPlant"
    /\ CallsStarted < MaxCalls
    /\ handleDelete
    /\ showModal' = showModal

\* HelperButton onPress={() => setShowModal(true)}
pressDeleteIcon ==
    /\ screen = "editPlant" /\ route = "editPlant"
    /\ showModal' = TRUE
    /\ UNCHANGED <<screen, route, selectedPlant, loading, image,
                   isRemindersChecked, isReminderChecked, values, pending,
                   settled, toasts>>

\* DeletePlantConfirmationModal: the user accepts; the modal calls
\* handleDelete and may close itself through toggleModal
modalConfirm ==
    /\ screen = "editPlant" /\ route = "editPlant"
    /\ showModal
    /\ CallsStarted < MaxCalls
    /\ handleDelete
    /\ showModal' \in BOOLEAN

\* DeletePlantConfirmationModal: the user declines, toggleModal(false)
modalCancel ==
    /\ screen = "editPlant" /\ route = "editPlant"
    /\ showModal
    /\ showModal' = FALSE
    /\ UNCHANGED <<screen, route, selectedPlant, loading, image,
                   isRemindersChecked, isReminderChecked, values, pending,
                   settled, toasts>>

\* deletePlant resolved: navigate home, success toast
handleDeleteThen(i) ==
    /\ pending[i].op = "deletePlant"
    /\ Settle(i, "ok")
    /\ Unmount
    /\ toasts' = Append(toasts,
          Toast("pages.plants.edit.plantDeletedSuccess", "success"))
    /\ UNCHANGED <<screen, selectedPlant>>

\* deletePlant rejected with error: generic error toast
handleDeleteCatch(i, error) ==
    /\ pending[i].op = "deletePlant"
    /\ Settle(i, error)
    /\ toasts' = Append(toasts, Toast("errors.general", "error"))
    /\ UNCHANGED <<screen, route, selectedPlant, loading, image, showModal,
                   isRemindersChecked, isReminderChecked, values>>

----------------------------------------------------------------------------

\* what addPlant / editPlant may throw: ApiErrors.INVALID_FILE or another
Errors == {"INVALID_FILE", "OTHER"}
\* what deletePlant may throw (no file is involved)
DeleteErrors == {"OTHER"}

Next ==
    \/ handleChangeName
    \/ handleChangeDescription
    \/ handleChangeFrequency
    \/ setImage
    \/ setRemindersChecked
    \/ setReminderChecked
    \/ Back
    \/ onSubmit
    \/ \E i \in 1..Len(pending) : onSubmitThen(i)
    \/ \E i \in 1..Len(pending), error \in Errors : onSubmitCatch(i, error)
    \/ handleEdit
    \/ \E i \in 1..Len(pending) : handleEditThen(i)
    \/ \E i \in 1..Len(pending), error \in Errors : handleEditCatch(i, error)
    \/ pressDeleteIcon
    \/ modalConfirm
    \/ modalCancel
    \/ \E i \in 1..Len(pending) : handleDeleteThen(i)
    \/ \E i \in 1..Len(pending), error \in DeleteErrors :
          handleDeleteCatch(i, error)

Spec == Init /\ [][Next]_vars

----------------------------------------------------------------------------
(* Properties *)

SubmissionOps == {"addPlant", "editPlant"}

\* the add / edit calls in flight
Submissions == {i \in DOMAIN pending : pending[i].op \in SubmissionOps}

DeleteCount(calls) ==
    Cardinality({i \in DOMAIN calls : calls[i].op = "deletePlant"})

Blanks(k) == [j \in 1..k |-> " "]
Zeros(k) == [j \in 1..k |-> "0"]

DigitChar(d) ==
    CASE d = 0 -> "0" [] d = 1 -> "1" [] d = 2 -> "2" [] d = 3 -> "3"
      [] d = 4 -> "4" [] d = 5 -> "5" [] d = 6 -> "6" [] d = 7 -> "7"
      [] d = 8 -> "8" [] d = 9 -> "9"

\* the decimal numeral of a natural number
RECURSIVE NumberToText(_)
NumberToText(n) ==
    IF n < 10 THEN <<DigitChar(n)>>
    ELSE NumberToText(n \div 10) \o <<DigitChar(n % 10)>>

\* text writes the number n: its numeral, zeros before it, blanks around
IsNumeralOf(text, n) ==
    \E a, z, b \in 0..Len(text) :
        text = Blanks(a) \o Zeros(z) \o NumberToText(n) \o Blanks(b)

\* text is core with blanks around it, and core has none at its ends
IsTrimOf(core, text) ==
    /\ \E a, b \in 0..Len(text) : text = Blanks(a) \o core \o Blanks(b)
    /\ core # <<>> => (core[1] # " " /\ core[Len(core)] # " ")

\* C1: a submission made with the reminder checkbox unchecked passes a
\* payload without any wateringReminderFrequency key, whatever the form's
\* frequency field holds.
C1_NoFrequencyKeyWhenUnchecked ==
    \A i \in Submissions :
        ~pending[i].checked =>
            "wateringReminderFrequency" \notin DOMAIN pending[i].payload

\* an unchecked submission in flight whose frequency field holds typed text
C1_Witness ==
    \E i \in Submissions :
        /\ ~pending[i].checked
        /\ pending[i].values.wateringReminderFrequency.t = "string"
        /\ pending[i].op = "addPlant"

\* C2: deletePlant is only ever called by the confirmation modal, open and
\* accepted; pressing the delete icon alone calls nothing.
C2_DeleteOnlyAfterConfirmation ==
    [][/\ DeleteCount(pending') > DeleteCount(pending) =>
              showModal /\ modalConfirm
       /\ (showModal' /\ ~showModal) => pending' = pending]_vars

\* a deletePlant call is in flight
C2_Witness == DeleteCount(pending) > 0

\* C3: at most one addPlant / editPlant call of the screen is in flight.
C3_OneSubmissionInFlight == Cardinality(Submissions) <= 1

\* a submission in flight on a screen that already had one finish
C3_Witness ==
    /\ route = screen
    /\ Submissions # {}
    /\ \E k \in DOMAIN settled : settled[k].op \in SubmissionOps

\* C4: once no add / edit call is in flight any more, loading is false:
\* the loader is only up while a submission is running.
C4_LoadingClearedAfterSubmission == loading => Submissions # {}

\* the form is back after a submission failed with INVALID_FILE
C4_Witness ==
    /\ route = screen
    /\ ~loading
    /\ pending = <<>>
    /\ \E k \in DOMAIN settled :
          settled[k].op = "addPlant" /\ settled[k].outcome = "INVALID_FILE"

\* the editPlant calls in flight
EditCalls == {i \in DOMAIN pending : pending[i].op = "editPlant"}

\* the addPlant calls in flight
AddCalls == {i \in DOMAIN pending : pending[i].op = "addPlant"}

\* C5 as stated: an edit submission without a newly picked image sends the
\* plant's stored image URI, one with a picked image sends its encoding.
C5_ImageFallsBackToStoredUri ==
    \A i \in EditCalls :
        pending[i].payload.image =
            IF pending[i].image = "undefined" THEN selectedPlant.imgSrc
            ELSE base64EncodeImage(pending[i].image)

\* C5 amended: an edit submission without a newly picked image sends null as
\* image, one with a picked image sends its encoding.
C5_ImageNullUnlessPicked ==
    \A i \in EditCalls :
        pending[i].payload.image =
            IF pending[i].image = "undefined" THEN "null"
            ELSE base64EncodeImage(pending[i].image)

\* an edit submission in flight, made without picking an image
C5_Witness == \E i \in EditCalls : pending[i].image = "undefined"

\* the form shows the loaded record unmodified, in the words of the claim
FormUnmodified ==
    LET stored == selectedPlant.wateringReminderFrequency
        freq == values.wateringReminderFrequency
    IN  /\ values.name = selectedPlant.name
        /\ values.description = selectedPlant.description
        /\ image = "undefined"
        /\ isReminderChecked <=> (stored.v # 0)
        /\ \/ ~isReminderChecked
           \/ IF freq.t = "string" THEN IsNumeralOf(freq.v, stored.v)
              ELSE freq.v = stored.v

\* C6: on the edit form the submit button is disabled exactly when name and
\* description equal the stored ones, no image is picked, the checkbox
\* agrees with the stored frequency being non-zero and, if checked, the
\* form frequency equals the stored one, a numeral counting as its number.
C6_DisabledExactlyWhenUnmodified ==
    EditFormShown => (checkIfButtonShouldBeDisabled(values) <=> FormUnmodified)

\* the button is disabled although the frequency field holds typed text
C6_Witness ==
    /\ EditFormShown
    /\ isReminderChecked
    /\ values.wateringReminderFrequency.t = "string"
    /\ checkIfButtonShouldBeDisabled(values)

\* C7: a failed add / edit submission shows exactly one notification, the
\* file-type one if and only if the error is INVALID_FILE and the generic
\* one otherwise, and does not navigate.
C7_OneErrorToastPerFailure ==
    [][LET last == settled'[Len(settled')]
       IN  (/\ Len(settled') = Len(settled) + 1
            /\ last.op \in SubmissionOps
            /\ last.outcome # "ok")
           => /\ toasts' = Append(toasts,
                    IF last.outcome = "INVALID_FILE"
                    THEN [text1 |-> "errors.invalidFileType", type |-> "error"]
                    ELSE [text1 |-> "errors.general", type |-> "error"])
              /\ route' = route]_vars

\* an edit submission has failed with INVALID_FILE on a screen still shown
C7_Witness ==
    /\ route = screen
    /\ \E k \in DOMAIN settled :
          settled[k].op = "editPlant" /\ settled[k].outcome = "INVALID_FILE"

\* C8: a submission made with the checkbox checked sends, for a frequency
\* typed as text, the integer that text writes, and a frequency that is a
\* number already as it is.
C8_FrequencyParsed ==
    \A i \in Submissions :
        pending[i].checked =>
            LET typed == pending[i].values.wateringReminderFrequency
                sent == pending[i].payload.wateringReminderFrequency
            IN  IF typed.t = "string"
                THEN sent.t = "number" /\ IsNumeralOf(typed.v, sent.v)
                ELSE sent = typed

\* a checked submission in flight whose frequency was typed with a blank
C8_Witness ==
    \E i \in Submissions :
        /\ pending[i].checked
        /\ pending[i].values.wateringReminderFrequency = Str(<<" ", "2">>)

\* C9: addPlant receives the form's name and description with the white
\* space at both ends removed.
C9_AddPayloadTrimmed ==
    \A i \in AddCalls :
        /\ IsTrimOf(pending[i].payload.name, pending[i].values.name)
        /\ IsTrimOf(pending[i].payload.description,
                    pending[i].values.description)

\* an add submission in flight for a name typed with blanks on both sides
C9_Witness ==
    \E i \in AddCalls :
        /\ pending[i].values.name = <<" ", "F", " ">>
        /\ pending[i].payload.name = <<"F">>

\* C10: while a remote call of the screen is in flight the screen shows the
\* loader and not the form.
C10_LoaderWhileCallInFlight ==
    (route = screen /\ pending # <<>>) => (LoaderShown /\ ~FormShown)


\* C11: when an add / edit submission fails on a screen still shown, the
\* form comes back with the name, description and frequency that were
\* submitted, so that they can be submitted again without typing.
C11_FailedSubmissionKeepsFormValues ==
    [][\A i \in Submissions :
          LET last == settled'[Len(settled')]
              sent == pending[i].values
          IN  (/\ route = screen
               /\ Len(settled') = Len(settled) + 1
               /\ last.op \in SubmissionOps
               /\ last.outcome # "ok")
              => /\ values'.name = sent.name
                 /\ values'.description = sent.description
                 /\ values'.wateringReminderFrequency =
                        sent.wateringReminderFrequency]_vars

====
